---- MODULE Spec2Model ----
(***************************************************************************)
(* Model of src/bot.py: the polling loop of main() with its momentum trade *)
(* block and its relative-value (RV) open/close state machine.             *)
(*                                                                         *)
(* Conventions                                                             *)
(*  - Prices are integers in thousandths (0.08 is 80); the quotes drawn    *)
(*    are even so that (bid + ask) / 2 is exact.                           *)
(*  - The clock is in seconds.  One loop iteration reads the clock once;   *)
(*    the wall clock, time.time() and the reference-timezone clock are     *)
(*    taken to differ by whole hours, so they share their 15-minute and    *)
(*    1-hour bucket boundaries.                                            *)
(*  - Python None is the empty tuple <<>>; a token is <<slug, side>>, a    *)
(*    leg is <<side, token>>.                                              *)
(*  - One action models one whole iteration of the while loop: the sleep   *)
(*    that ended the previous iteration, then the body up to its sleep.    *)
(*  - place_limit_buy_order is its boolean result, drawn per order; the    *)
(*    float comparisons of main are exact comparisons of thousandths.      *)
(***************************************************************************)
EXTENDS Integers, Sequences, FiniteSets, TLC

\* ---------------------------------------------------------------- constants
BUY_IN_LAST_X_MINUTES == 5
CHECK_INTERVAL_SECONDS == 5
RV_OPEN_THR == 80
RV_CLOSE_THR == 30
RV_COOLDOWN_SECONDS == 120
RETRY_SLEEP_SECONDS == 10

\* ------------------------------------------------------------------- bounds
\* number of loop iterations explored
MaxTicks == 3
\* the clock when the process starts (minute 10 of a 15-minute interval)
StartTs == 600
\* time a loop iteration may take beyond its sleep (blocking network calls)
Latencies == {120, 3600}
\* <<bid15, ask15, bid1h, ask1h>>: the quotes the price endpoint may return
\* for the 15-minute and the 1-hour Yes token in one iteration; the signals
\* are -0.08, +0.08, -0.05, +0.03, and three with a mid of 0
Quotes == {<<420, 420, 500, 500>>, <<580, 580, 500, 500>>,
           <<420, 420, 470, 470>>, <<420, 580, 470, 470>>,
           <<0, 0, 500, 500>>, <<420, 0, 0, 0>>, <<0, 0, 0, 0>>}
\* <<yes_bid, no_bid>> the price endpoint may return to the momentum block
Bids == {<<0, 0>>, <<560, 440>>, <<440, 560>>}

\* bids and asks of the calls of get_mid_price: 0, 20, ..., 20 * MaxPriceStep
MaxPriceStep == 4
\* days spanned by the calls of btc_1h_slug_for_now
MaxDay == 1

None == <<>>

VARIABLES
  clock,                \* time.time() of the latest loop iteration
  ticks,                \* loop iterations run so far
  last_trade_interval,  \* main: last_trade_interval
  rv_open,              \* main: rv_open
  rv_last_action_ts,    \* main: rv_last_action_ts
  rv_15m_leg,           \* main: rv_15m_leg
  rv_1h_leg,            \* main: rv_1h_leg
  outcome,              \* how the latest iteration ended
  mkt15,                \* 15-minute market instance resolved by it
  mkt1h,                \* 1-hour market instance resolved by it
  yes_bid,              \* momentum block: yes_bid
  no_bid,               \* momentum block: no_bid
  up_mid_15m,           \* RV block: up_mid_15m
  up_mid_1h,            \* RV block: up_mid_1h
  orders,               \* orders handed to place_limit_buy_order by it
  traded_bucket,        \* history: start of the 15-minute interval of the
                        \* latest accepted momentum buy, -1 before the first
  call                  \* a call of one function studied on its own: its
                        \* arguments, whether it returned, and its result

vars == <<clock, ticks, last_trade_interval, rv_open, rv_last_action_ts,
          rv_15m_leg, rv_1h_leg, outcome, mkt15, mkt1h, yes_bid, no_bid,
          up_mid_15m, up_mid_1h, orders, traded_bucket, call>>

rvState == <<rv_open, rv_15m_leg, rv_1h_leg, rv_last_action_ts>>

\* ------------------------------------------------------------ pure helpers
Abs(x) == IF x < 0 THEN -x ELSE x

Max(a, b) == IF a >= b THEN a ELSE b

\* line 198 returning the smaller of the two
get_mid_price_min(bid, ask) ==
  IF bid > 0 /\ ask > 0 THEN (bid + ask) \div 2
  ELSE IF bid <= ask THEN bid ELSE ask

\* get_mid_price, given what get_best_bid and get_best_ask returned
get_mid_price(bid, ask) ==
  IF bid > 0 /\ ask > 0 THEN (bid + ask) \div 2 ELSE Max(Max(bid, ask), 0)

\* lines 95-96 without the replacement of 0 by 12
hour12_of_modulo(hour24) == hour24 % 12

\* btc_1h_slug_for_now: the hour on the 12-hour clock
hour12_of(hour24) == IF hour24 % 12 = 0 THEN 12 ELSE hour24 % 12

ampm_of(hour24) == IF hour24 < 12 THEN "am" ELSE "pm"

\* btc_1h_slug_for_now: month and day stand as the day number
btc_1h_slug_for_now(ts) ==
  LET hour24 == (ts \div 3600) % 24
  IN <<"bitcoin-up-or-down", ts \div 86400, hour12_of(hour24), ampm_of(hour24)>>

\* get_current_polymarket_tokens: the slug of the current 15-minute bucket
btc_15m_slug(ts) == <<"btc-updown-15m", (ts \div 900) * 900>>

NotFound == [slug |-> None, yes |-> None, no |-> None]

\* the directory lookup: both tokens of the slug, or four None
get_polymarket_tokens_for_slug(slug, found) ==
  IF found THEN [slug |-> slug, yes |-> <<slug, "YES">>, no |-> <<slug, "NO">>]
  ELSE NotFound

get_current_polymarket_tokens(ts, found) ==
  get_polymarket_tokens_for_slug(btc_15m_slug(ts), found)

current_interval_of(ts) == ((ts \div 60) % 60) \div 15

minute_in_interval_of(ts) == ((ts \div 60) % 60) % 15

trigger_minute == 15 - BUY_IN_LAST_X_MINUTES

Order(kind, token, ok) == [kind |-> kind, token |-> token, ok |-> ok]

\* ------------------------------------------------------------ order gateway
\* place_limit_buy_order, lines 102-118: the body of the try.  fault names
\* the call that raises (building the OrderArgs, create_order, post_order),
\* resp is what post_order returned: a mapping with its success and orderID
\* entries, or an object without get
try_place_order(fault, resp) ==
  IF fault # "none" THEN "Raised"
  ELSE IF ~resp.mapping THEN "Raised"
  ELSE IF resp.success = "True" \/ resp.orderID # "absent" THEN "Accepted"
  ELSE "Rejected"

\* lines 120-122 with the handler re-raising
place_limit_buy_order_reraise(fault, resp) == try_place_order(fault, resp)

\* place_limit_buy_order, lines 99-122: the handler turns every exception of
\* the body into False
place_limit_buy_order(fault, resp) ==
  IF try_place_order(fault, resp) = "Raised" THEN "Rejected"
  ELSE try_place_order(fault, resp)

\* time.sleep at the end of an iteration, by how the iteration ended
SleepAfter(o) ==
  CASE o = "init" -> 0
    [] o = "ok" -> CHECK_INTERVAL_SECONDS
    [] OTHER -> RETRY_SLEEP_SECONDS

Elapsed(o) == {SleepAfter(o)} \cup Latencies

\* ---------------------------------------------------------- momentum block
\* line 237 without the test of last_trade_interval
momentum_due_window_only(ts, lti) ==
  minute_in_interval_of(ts) >= trigger_minute

\* main, line 237: the trigger window is open and the interval is untraded
momentum_due(ts, lti) ==
  minute_in_interval_of(ts) >= trigger_minute /\ lti # current_interval_of(ts)

\* lines 242-248 buying both outcomes whenever the bids differ
momentum_orders_both_sides(ts, lti, m15, yb, nb, ok) ==
  IF ~momentum_due(ts, lti) \/ yb = nb THEN <<>>
  ELSE <<Order("MOM", m15.yes, ok), Order("MOM", m15.no, ok)>>

\* main, lines 242-248: the single-leg buy on the higher bid, none on a tie
momentum_orders(ts, lti, m15, yb, nb, ok) ==
  IF ~momentum_due(ts, lti) THEN <<>>
  ELSE IF yb > nb THEN <<Order("MOM", m15.yes, ok)>>
  ELSE IF nb > yb THEN <<Order("MOM", m15.no, ok)>>
  ELSE <<>>

\* lines 250-251 recording the interval of every submitted buy
momentum_interval_any_order(ts, lti, mo) ==
  IF mo # <<>> THEN current_interval_of(ts) ELSE lti

\* main, lines 250-251: the interval is recorded when the buy was accepted
momentum_interval(ts, lti, mo) ==
  IF mo # <<>> /\ mo[1].ok THEN current_interval_of(ts) ELSE lti

\* ---------------------------------------------------------------- RV block
\* line 260 without the tests of the 1-hour lookup
rv_guard_15m_only(m15, m1h) == m15.yes # None /\ m15.no # None

\* main, line 260: both market instances resolved to two tokens each
rv_guard(m15, m1h) ==
  /\ m1h.slug # None /\ m1h.yes # None /\ m1h.no # None
  /\ m15.yes # None /\ m15.no # None

\* main, line 263
signal_of(mid15, mid1h) == mid15 - mid1h

\* line 268 with the window read as minutes
cooldown_active_minutes(now_ts, last_ts) ==
  (now_ts - last_ts) < RV_COOLDOWN_SECONDS \div 60

\* main, line 268
cooldown_active(now_ts, last_ts) == (now_ts - last_ts) < RV_COOLDOWN_SECONDS

\* line 270 without the cooldown test
open_cond_no_cooldown(open, cooldown, signal) ==
  ~open /\ Abs(signal) >= RV_OPEN_THR

\* main, line 270
open_cond(open, cooldown, signal) ==
  ~open /\ ~cooldown /\ Abs(signal) >= RV_OPEN_THR

\* line 300 with a strict comparison against the close threshold
close_cond_strict(open, cooldown, signal) ==
  open /\ ~cooldown /\ Abs(signal) < RV_CLOSE_THR

\* line 300 with the open threshold in place of the close threshold
close_cond_open_thr(open, cooldown, signal) ==
  open /\ ~cooldown /\ Abs(signal) <= RV_OPEN_THR

\* main, line 300
close_cond(open, cooldown, signal) ==
  open /\ ~cooldown /\ Abs(signal) <= RV_CLOSE_THR

\* lines 272-277 with the 15-minute sides exchanged
open_15m_leg_same_side(signal, m15) ==
  IF signal > 0 THEN <<"YES", m15.yes>> ELSE <<"NO", m15.no>>

\* main, lines 272-277: the legs of an open attempt
open_15m_leg(signal, m15) ==
  IF signal > 0 THEN <<"NO", m15.no>> ELSE <<"YES", m15.yes>>

open_1h_leg(signal, m1h) ==
  IF signal > 0 THEN <<"YES", m1h.yes>> ELSE <<"NO", m1h.no>>

\* line 294 testing the first leg only
open_success_first_leg(leg1_success, leg2_success) == leg1_success

\* main, line 294
open_success(leg1_success, leg2_success) == leg1_success /\ leg2_success

\* main, lines 303-304: the tokens of a close attempt
close_15m_token(leg, m15) == IF leg[1] = "NO" THEN m15.yes ELSE m15.no

close_1h_token(leg, m1h) == IF leg[1] = "NO" THEN m1h.yes ELSE m1h.no

\* line 321 with or in place of and
close_success_either(leg1_success, leg2_success) ==
  leg1_success \/ leg2_success

\* main, line 321
close_success(leg1_success, leg2_success) == leg1_success /\ leg2_success

\* main, lines 260-327: the RV block as a function of the state before it and
\* of the iteration's inputs; the result is the state after it and its orders
rv_block(now_ts, m15, m1h, mid15, mid1h, ok1, ok2) ==
  LET signal == signal_of(mid15, mid1h)
      cooldown == cooldown_active(now_ts, rv_last_action_ts)
      same == [open |-> rv_open, ts |-> rv_last_action_ts,
               leg15 |-> rv_15m_leg, leg1h |-> rv_1h_leg, ords |-> <<>>]
  IN IF ~rv_guard(m15, m1h) THEN same
     ELSE IF open_cond(rv_open, cooldown, signal) THEN
       LET l15 == open_15m_leg(signal, m15)
           l1h == open_1h_leg(signal, m1h)
           done == open_success(ok1, ok2)
       IN [open |-> IF done THEN TRUE ELSE rv_open,
           ts |-> IF done THEN now_ts ELSE rv_last_action_ts,
           leg15 |-> l15, leg1h |-> l1h,
           ords |-> <<Order("RV_OPEN", l15[2], ok1),
                      Order("RV_OPEN", l1h[2], ok2)>>]
     ELSE IF close_cond(rv_open, cooldown, signal) THEN
       IF rv_15m_leg # None /\ rv_1h_leg # None THEN
         LET done == close_success(ok1, ok2)
         IN [open |-> IF done THEN FALSE ELSE rv_open,
             ts |-> IF done THEN now_ts ELSE rv_last_action_ts,
             leg15 |-> IF done THEN None ELSE rv_15m_leg,
             leg1h |-> IF done THEN None ELSE rv_1h_leg,
             ords |-> <<Order("RV_CLOSE", close_15m_token(rv_15m_leg, m15), ok1),
                        Order("RV_CLOSE", close_1h_token(rv_1h_leg, m1h), ok2)>>]
       ELSE same
     ELSE same

\* ---------------------------------------------------------------- the loop
\* lines 333-335 with a handler that leaves the loop
loop_continues_unless_error(o) == o \notin {"interrupt", "error"}

\* main, lines 217 and 331-335: the loop goes on after every way an iteration
\* can end except the interrupt, whose handler exits the process
loop_continues(o) == o # "interrupt"

InitMain ==
  /\ clock = StartTs
  /\ ticks = 0
  /\ last_trade_interval = -1
  /\ rv_open = FALSE
  /\ rv_last_action_ts = 0
  /\ rv_15m_leg = None
  /\ rv_1h_leg = None
  /\ outcome = "init"
  /\ mkt15 = NotFound
  /\ mkt1h = NotFound
  /\ yes_bid = 0
  /\ no_bid = 0
  /\ up_mid_15m = 0
  /\ up_mid_1h = 0
  /\ orders = <<>>
  /\ traded_bucket = -1

NoCall == [fn |-> "none"]

Init == InitMain /\ call = NoCall

\* main, lines 222-227: the 15-minute market is not found; sleep and continue
MarketNotActive ==
  /\ ticks < MaxTicks
  /\ loop_continues(outcome)
  /\ ticks' = ticks + 1
  /\ outcome' = "not_active"
  /\ \E d \in Elapsed(outcome) :
       /\ clock' = clock + d
       /\ mkt15' = get_current_polymarket_tokens(clock + d, FALSE)
  /\ mkt1h' = NotFound
  /\ yes_bid' = 0 /\ no_bid' = 0 /\ up_mid_15m' = 0 /\ up_mid_1h' = 0
  /\ orders' = <<>>
  /\ UNCHANGED <<last_trade_interval, rv_open, rv_last_action_ts,
                 rv_15m_leg, rv_1h_leg, traded_bucket, call>>

\* main, lines 219-329: an iteration that runs to its sleep
Tick ==
  /\ ticks < MaxTicks
  /\ loop_continues(outcome)
  /\ ticks' = ticks + 1
  /\ outcome' = "ok"
  /\ UNCHANGED call
  /\ \E d \in Elapsed(outcome) :
     \E ts \in {clock + d} :
     /\ clock' = ts
     /\ \E m15 \in {get_current_polymarket_tokens(ts, TRUE)} :
        /\ mkt15' = m15
        /\ \E bids \in Bids :
           /\ yes_bid' = bids[1]
           /\ no_bid' = bids[2]
           /\ \E due \in {momentum_orders(ts, last_trade_interval, m15,
                                          bids[1], bids[2], TRUE) # <<>>} :
              \E okm \in (IF due THEN BOOLEAN ELSE {FALSE}) :
              \E mo \in {momentum_orders(ts, last_trade_interval, m15,
                                         bids[1], bids[2], okm)} :
              /\ last_trade_interval' =
                   momentum_interval(ts, last_trade_interval, mo)
              /\ traded_bucket' = IF mo # <<>> /\ mo[1].ok
                                  THEN (ts \div 900) * 900 ELSE traded_bucket
              /\ \E f1h \in BOOLEAN :
                 \E m1h \in {get_polymarket_tokens_for_slug(
                               btc_1h_slug_for_now(ts), f1h)} :
                 /\ mkt1h' = m1h
                 /\ \E rvOn \in {rv_guard(m15, m1h)} :
                    \E q \in (IF rvOn THEN Quotes ELSE {<<0, 0, 0, 0>>}) :
                    \E mid15 \in {IF rvOn THEN get_mid_price(q[1], q[2])
                                  ELSE 0},
                       mid1h \in {IF rvOn THEN get_mid_price(q[3], q[4])
                                  ELSE 0} :
                    /\ up_mid_15m' = mid15
                    /\ up_mid_1h' = mid1h
                    /\ \E tries \in {rv_block(ts, m15, m1h, mid15, mid1h,
                                              TRUE, TRUE).ords # <<>>} :
                       \E ok1 \in (IF tries THEN BOOLEAN ELSE {FALSE}),
                          ok2 \in (IF tries THEN BOOLEAN ELSE {FALSE}) :
                       \E rv \in {rv_block(ts, m15, m1h, mid15, mid1h,
                                           ok1, ok2)} :
                         /\ rv_open' = rv.open
                         /\ rv_last_action_ts' = rv.ts
                         /\ rv_15m_leg' = rv.leg15
                         /\ rv_1h_leg' = rv.leg1h
                         /\ orders' = mo \o rv.ords

\* main, lines 333-335: an exception raised after the momentum block and
\* before the RV block changes anything (lines 258-265) reaches the handler
LoopError ==
  /\ ticks < MaxTicks
  /\ loop_continues(outcome)
  /\ ticks' = ticks + 1
  /\ outcome' = "error"
  /\ mkt1h' = NotFound
  /\ up_mid_15m' = 0 /\ up_mid_1h' = 0
  /\ UNCHANGED <<rv_open, rv_last_action_ts, rv_15m_leg, rv_1h_leg, call>>
  /\ \E d \in Elapsed(outcome) :
     \E ts \in {clock + d} :
     /\ clock' = ts
     /\ \E m15 \in {get_current_polymarket_tokens(ts, TRUE)} :
        /\ mkt15' = m15
        /\ \E bids \in Bids :
           /\ yes_bid' = bids[1]
           /\ no_bid' = bids[2]
           /\ \E due \in {momentum_orders(ts, last_trade_interval, m15,
                                          bids[1], bids[2], TRUE) # <<>>} :
              \E okm \in (IF due THEN BOOLEAN ELSE {FALSE}) :
              \E mo \in {momentum_orders(ts, last_trade_interval, m15,
                                         bids[1], bids[2], okm)} :
                /\ last_trade_interval' =
                     momentum_interval(ts, last_trade_interval, mo)
                /\ traded_bucket' = IF mo # <<>> /\ mo[1].ok
                                    THEN (ts \div 900) * 900
                                    ELSE traded_bucket
                /\ orders' = mo

\* main, lines 331-332: the interrupt ends the process; nothing is left of
\* the iteration it cut short
Interrupt ==
  /\ loop_continues(outcome)
  /\ outcome' = "interrupt"
  /\ mkt15' = NotFound
  /\ mkt1h' = NotFound
  /\ yes_bid' = 0 /\ no_bid' = 0 /\ up_mid_15m' = 0 /\ up_mid_1h' = 0
  /\ orders' = <<>>
  /\ UNCHANGED <<clock, ticks, last_trade_interval, rv_open,
                 rv_last_action_ts, rv_15m_leg, rv_1h_leg, traded_bucket,
                 call>>

Next == MarketNotActive \/ Tick \/ LoopError \/ Interrupt

Spec == Init /\ [][Next]_vars

\* one iteration of the while True loop, however it ends: MarketNotActive,
\* Tick and LoopError are the steps of Next that advance ticks, and one of
\* them is possible whenever the loop has not been interrupted
Iteration ==
  /\ ticks < MaxTicks
  /\ loop_continues(outcome)
  /\ ticks' = ticks + 1

\* the single thread of main keeps running its loop: every call of an
\* iteration returns or raises, and every sleep ends
LiveSpec == Spec /\ WF_ticks(Iteration)

TypeOK ==
  /\ ticks \in 0..MaxTicks
  /\ last_trade_interval \in -1..3
  /\ rv_open \in BOOLEAN
  /\ outcome \in {"init", "not_active", "ok", "error", "interrupt"}
  /\ Len(orders) <= 3

\* ------------------------------------------------- reading an iteration back
IsMomentum(o) == o.kind = "MOM"

IsRV(o) == o.kind # "MOM"

IsOpenOrder(o) == o.kind = "RV_OPEN"

IsCloseOrder(o) == o.kind = "RV_CLOSE"

MomentumOrders == SelectSeq(orders, IsMomentum)

RVOrders == SelectSeq(orders, IsRV)

OpenOrders == SelectSeq(orders, IsOpenOrder)

CloseOrders == SelectSeq(orders, IsCloseOrder)

\* the latest iteration reached the RV evaluation (fetched both mids)
RVEvaluated ==
  /\ outcome = "ok"
  /\ mkt15 # NotFound
  /\ mkt1h # NotFound

signal == up_mid_15m - up_mid_1h

Flip(token) == <<token[1], IF token[2] = "YES" THEN "NO" ELSE "YES">>

\* -------------------------------------------------------------------- C1
\* C1: in an iteration whose 15-minute or 1-hour Yes mid is exactly 0 the RV
\* engine submits no order and leaves isOpen, both legs and
\* lastActionTimestamp unchanged.
C1_ZeroMidLeavesStateAlone ==
  [][(RVEvaluated' /\ (up_mid_15m' = 0 \/ up_mid_1h' = 0))
       => (RVOrders' = <<>> /\ rvState' = rvState)]_vars

\* -------------------------------------------------------------------- C2
\* an open attempt: state Closed, cooldown elapsed, |signal| >= openThreshold
OpenAttempted ==
  /\ ~rv_open
  /\ RVEvaluated'
  /\ clock' - rv_last_action_ts >= RV_COOLDOWN_SECONDS
  /\ Abs(signal') >= RV_OPEN_THR

\* C2: after an open attempt, isOpen is true iff both leg orders were
\* accepted, and lastActionTimestamp is the time of that iteration exactly in
\* that case and is unchanged otherwise.
C2_OpenAtomicity ==
  [][OpenAttempted =>
       /\ Len(OpenOrders') = 2
       /\ rv_open' <=> (OpenOrders'[1].ok /\ OpenOrders'[2].ok)
       /\ rv_last_action_ts' =
            IF OpenOrders'[1].ok /\ OpenOrders'[2].ok
            THEN clock' ELSE rv_last_action_ts]_vars

C2_Witness ==
  /\ outcome = "ok"
  /\ Len(OpenOrders) = 2
  /\ OpenOrders[1].ok /\ OpenOrders[2].ok
  /\ rv_open
  /\ rv_last_action_ts = clock

\* -------------------------------------------------------------------- C3
\* C3: after an open attempt with a rejected leg, isOpen is false and both
\* leg fields are unset.
C3_FailedOpenLeavesNoTrace ==
  (/\ outcome = "ok"
   /\ Len(OpenOrders) = 2
   /\ ~(OpenOrders[1].ok /\ OpenOrders[2].ok))
    => (~rv_open /\ rv_15m_leg = None /\ rv_1h_leg = None)

\* -------------------------------------------------------------------- C4
\* C4: at every iteration boundary both legs are set iff isOpen is true.
C4_LegsSetIffOpen ==
  (rv_15m_leg # None /\ rv_1h_leg # None) <=> rv_open

\* -------------------------------------------------------------------- C5
\* C5: in an iteration with now - lastActionTimestamp < cooldownWindow no
\* Closed->Open and no Open->Closed transition occurs and no RV order is
\* submitted.
C5_CooldownGate ==
  [][(clock' - rv_last_action_ts < RV_COOLDOWN_SECONDS)
       => (rv_open' = rv_open /\ RVOrders' = <<>>)]_vars

C5_Witness ==
  /\ RVEvaluated
  /\ rv_open
  /\ rv_last_action_ts < clock
  /\ clock - rv_last_action_ts < RV_COOLDOWN_SECONDS
  /\ Abs(signal) <= RV_CLOSE_THR
  /\ RVOrders = <<>>

\* -------------------------------------------------------------------- C6
\* C6: an Open state becomes Closed only in an iteration with
\* |signal| <= closeThreshold; with closeThreshold < |signal| < openThreshold
\* the state stays Open, the legs are unchanged and no RV order is submitted.
C6_Hysteresis ==
  [][/\ (rv_open /\ ~rv_open')
          => (RVEvaluated' /\ Abs(signal') <= RV_CLOSE_THR)
     /\ (/\ rv_open
         /\ RVEvaluated'
         /\ RV_CLOSE_THR < Abs(signal')
         /\ Abs(signal') < RV_OPEN_THR)
          => (/\ rv_open'
              /\ rv_15m_leg' = rv_15m_leg
              /\ rv_1h_leg' = rv_1h_leg
              /\ RVOrders' = <<>>)]_vars

C6_Witness ==
  /\ RVEvaluated
  /\ rv_open
  /\ clock - rv_last_action_ts >= RV_COOLDOWN_SECONDS
  /\ RV_CLOSE_THR < Abs(signal)
  /\ Abs(signal) < RV_OPEN_THR
  /\ RVOrders = <<>>

\* -------------------------------------------------------------------- C7
\* C7: the two closing buys are for the opposite outcome tokens of the market
\* instances recorded in the legs at open time.
C7_CloseTargetsRecordedMarkets ==
  [][(CloseOrders' # <<>>) =>
       /\ Len(CloseOrders') = 2
       /\ CloseOrders'[1].token = Flip(rv_15m_leg[2])
       /\ CloseOrders'[2].token = Flip(rv_1h_leg[2])]_vars

\* -------------------------------------------------------------------- C8
\* a close attempt: state Open, cooldown elapsed, |signal| <= closeThreshold
CloseAttempted ==
  /\ rv_open
  /\ RVEvaluated'
  /\ clock' - rv_last_action_ts >= RV_COOLDOWN_SECONDS
  /\ Abs(signal') <= RV_CLOSE_THR

\* C8: after a close attempt the state is Closed with both legs cleared and
\* lastActionTimestamp the time of the iteration iff both closing orders were
\* accepted; otherwise the whole position state is as before.
C8_CloseAtomicity ==
  [][CloseAttempted =>
       /\ Len(CloseOrders') = 2
       /\ IF CloseOrders'[1].ok /\ CloseOrders'[2].ok
          THEN /\ ~rv_open'
               /\ rv_15m_leg' = None
               /\ rv_1h_leg' = None
               /\ rv_last_action_ts' = clock'
          ELSE rvState' = rvState]_vars

C8_Witness ==
  /\ outcome = "ok"
  /\ Len(CloseOrders) = 2
  /\ CloseOrders[1].ok /\ CloseOrders[2].ok
  /\ ~rv_open
  /\ rv_15m_leg = None /\ rv_1h_leg = None
  /\ rv_last_action_ts = clock

\* -------------------------------------------------------------------- C9
\* C9: an open attempt submits (and on success records) the 15-minute No and
\* the 1-hour Yes token when signal > 0, the 15-minute Yes and the 1-hour No
\* token when signal < 0, and no other pairing.
C9_OpenLegSelection ==
  (OpenOrders # <<>>) =>
    /\ Len(OpenOrders) = 2
    /\ signal # 0
    /\ signal > 0 =>
         /\ OpenOrders[1].token = <<btc_15m_slug(clock), "NO">>
         /\ OpenOrders[2].token = <<btc_1h_slug_for_now(clock), "YES">>
         /\ rv_open => /\ rv_15m_leg = <<"NO", OpenOrders[1].token>>
                       /\ rv_1h_leg = <<"YES", OpenOrders[2].token>>
    /\ signal < 0 =>
         /\ OpenOrders[1].token = <<btc_15m_slug(clock), "YES">>
         /\ OpenOrders[2].token = <<btc_1h_slug_for_now(clock), "NO">>
         /\ rv_open => /\ rv_15m_leg = <<"YES", OpenOrders[1].token>>
                       /\ rv_1h_leg = <<"NO", OpenOrders[2].token>>

C9_Witness ==
  /\ Len(OpenOrders) = 2
  /\ up_mid_15m > 0 /\ up_mid_1h > 0
  /\ signal > 0
  /\ rv_open
  /\ rv_15m_leg[1] = "NO"

\* -------------------------------------------------------------------- C10
\* C10: in an iteration in which the 15-minute or the 1-hour market instance
\* is NotFound no RV order is submitted and the position state is unchanged;
\* when only the 1-hour instance is NotFound the momentum block still runs on
\* the resolved 15-minute instance.
C10_ResolutionGuard ==
  [][/\ (/\ outcome' \in {"ok", "not_active"}
         /\ (mkt15' = NotFound \/ mkt1h' = NotFound))
          => (RVOrders' = <<>> /\ rvState' = rvState)
     /\ (/\ outcome' = "ok"
         /\ mkt1h' = NotFound
         /\ minute_in_interval_of(clock') >= 15 - BUY_IN_LAST_X_MINUTES
         /\ last_trade_interval # current_interval_of(clock')
         /\ yes_bid' # no_bid')
          => (/\ Len(MomentumOrders') = 1
              /\ MomentumOrders'[1].token[1] = btc_15m_slug(clock'))]_vars

C10_Witness ==
  /\ outcome = "ok"
  /\ mkt15 # NotFound
  /\ mkt1h = NotFound
  /\ Len(MomentumOrders) = 1
  /\ RVOrders = <<>>

\* -------------------------------------------------------------------- C11
\* start of the 15-minute interval that holds second ts
IntervalOf(ts) == (ts \div 900) * 900

\* the minute of ts within its 15-minute interval lies in the final minutes
InTriggerWindow(ts) == (ts \div 60) % 15 >= 15 - BUY_IN_LAST_X_MINUTES

\* C11: a momentum order is submitted only in the final BUY_IN_LAST_X_MINUTES
\* minutes of an interval, only when the two bids differ and on the outcome
\* with the higher bid, one per iteration, and never in an interval in which
\* a momentum buy was already accepted (so at most one is accepted in it).
C11_MomentumAtMostOnce ==
  [][(MomentumOrders' # <<>>) =>
       /\ Len(MomentumOrders') = 1
       /\ InTriggerWindow(clock')
       /\ yes_bid' # no_bid'
       /\ MomentumOrders'[1].token =
            <<btc_15m_slug(clock'), IF yes_bid' > no_bid' THEN "YES" ELSE "NO">>
       /\ traded_bucket # IntervalOf(clock')]_vars

C11_Witness ==
  /\ outcome = "ok"
  /\ traded_bucket = IntervalOf(clock)
  /\ InTriggerWindow(clock)
  /\ yes_bid # no_bid
  /\ MomentumOrders = <<>>

\* -------------------------------------------------------------------- C12
\* the momentum buy of the iteration was accepted
MomentumAccepted == MomentumOrders # <<>> /\ MomentumOrders[1].ok

\* C12: the position state changes only in an iteration that submits RV
\* orders, whatever the momentum block did; last_trade_interval is decided by
\* the momentum order alone, whatever the RV block did; and when the momentum
\* order is rejected, tied or not due, an open or close attempt of the same
\* iteration still submits its two orders.
C12_PathsIndependent ==
  [][/\ (outcome' \in {"ok", "error", "not_active"}) =>
          /\ (RVOrders' = <<>>) => (rvState' = rvState)
          /\ last_trade_interval' =
               IF MomentumAccepted'
               THEN ((clock' \div 60) % 60) \div 15 ELSE last_trade_interval
     /\ (~MomentumAccepted' /\ OpenAttempted) => (Len(OpenOrders') = 2)
     /\ (~MomentumAccepted' /\ CloseAttempted) => (Len(CloseOrders') = 2)]_vars

\* a rejected momentum buy and an RV open in one iteration
C12_Witness ==
  /\ outcome = "ok"
  /\ Len(MomentumOrders) = 1
  /\ ~MomentumOrders[1].ok
  /\ Len(OpenOrders) = 2
  /\ rv_open
  /\ last_trade_interval = -1

\* ------------------------------------------------- functions on their own
\* the responses post_order may return
Responses ==
  {[mapping |-> FALSE, success |-> "absent", orderID |-> "absent"]} \cup
  [mapping : {TRUE},
   success : {"True", "False", "absent", "other"},
   orderID : {"absent", "empty", "id"}]

GatewayCalls ==
  [fn : {"place_limit_buy_order"},
   fault : {"none", "build", "sign", "post"},
   resp : Responses, done : {FALSE}, out : {""}]

PriceGrid == {20 * k : k \in 0..MaxPriceStep}

MidCalls ==
  [fn : {"get_mid_price"}, bid : PriceGrid, ask : PriceGrid,
   done : {FALSE}, out : {0}]

SlugCalls ==
  [fn : {"btc_1h_slug_for_now"},
   ts : {d * 86400 + h * 3600 + m : d \in 0..MaxDay, h \in 0..23,
                                    m \in {0, 3599}},
   done : {FALSE}, out : {<<>>}]

FnInit == InitMain /\ call \in GatewayCalls \cup MidCalls \cup SlugCalls

CallPlaceLimitBuyOrder ==
  /\ call.fn = "place_limit_buy_order" /\ ~call.done
  /\ call' = [call EXCEPT !.done = TRUE,
                          !.out = place_limit_buy_order(call.fault, call.resp)]
  /\ UNCHANGED <<clock, ticks, last_trade_interval, rv_open,
                 rv_last_action_ts, rv_15m_leg, rv_1h_leg, outcome, mkt15,
                 mkt1h, yes_bid, no_bid, up_mid_15m, up_mid_1h, orders,
                 traded_bucket>>

CallGetMidPrice ==
  /\ call.fn = "get_mid_price" /\ ~call.done
  /\ call' = [call EXCEPT !.done = TRUE,
                          !.out = get_mid_price(call.bid, call.ask)]
  /\ UNCHANGED <<clock, ticks, last_trade_interval, rv_open,
                 rv_last_action_ts, rv_15m_leg, rv_1h_leg, outcome, mkt15,
                 mkt1h, yes_bid, no_bid, up_mid_15m, up_mid_1h, orders,
                 traded_bucket>>

CallSlugForNow ==
  /\ call.fn = "btc_1h_slug_for_now" /\ ~call.done
  /\ call' = [call EXCEPT !.done = TRUE,
                          !.out = btc_1h_slug_for_now(call.ts)]
  /\ UNCHANGED <<clock, ticks, last_trade_interval, rv_open,
                 rv_last_action_ts, rv_15m_leg, rv_1h_leg, outcome, mkt15,
                 mkt1h, yes_bid, no_bid, up_mid_15m, up_mid_1h, orders,
                 traded_bucket>>

FnNext == CallPlaceLimitBuyOrder \/ CallGetMidPrice \/ CallSlugForNow

FnSpec == FnInit /\ [][FnNext]_vars

C15_MidPriceRule ==
  (call.fn = "get_mid_price" /\ call.done) =>
    /\ (call.bid > 0 /\ call.ask > 0) => (2 * call.out = call.bid + call.ask)
    /\ (call.bid > 0 /\ call.ask = 0) => (call.out = call.bid)
    /\ (call.bid = 0 /\ call.ask > 0) => (call.out = call.ask)
    /\ (call.bid = 0 /\ call.ask = 0) => (call.out = 0)
    /\ (call.out = 0) <=> (call.bid = 0 /\ call.ask = 0)

C15_Witness ==
  /\ call.fn = "get_mid_price" /\ call.done
  /\ call.bid = 0 /\ call.ask > 0
  /\ call.out = call.ask

\* -------------------------------------------------------------------- C16
\* C16: for every hour h in 0..23 btc_1h_slug_for_now emits an hour in 1..12,
\* 12 for h = 0 and for h = 12 and h mod 12 otherwise, with the suffix am
\* exactly when h < 12.
C16_HourConversion ==
  (call.fn = "btc_1h_slug_for_now" /\ call.done) =>
    LET h == (call.ts % 86400) \div 3600
    IN /\ call.out[3] \in 1..12
       /\ (h \in {0, 12}) => (call.out[3] = 12)
       /\ (h \notin {0, 12}) => (call.out[3] = IF h < 12 THEN h ELSE h - 12)
       /\ (call.out[4] = "am") <=> (h < 12)
       /\ call.out[4] \in {"am", "pm"}

\* midnight is 12am
C16_Witness ==
  /\ call.fn = "btc_1h_slug_for_now" /\ call.done
  /\ (call.ts % 86400) \div 3600 = 0
  /\ call.out[3] = 12 /\ call.out[4] = "am"

\* -------------------------------------------------------------------- C14
\* C14: every iteration, one that ended in the exception handler included,
\* is followed by a further iteration unless the interrupt comes first, so
\* only the interrupt stops the loop; the iteration after the handler starts
\* no sooner than the backoff sleep; the handler leaves the position state
\* alone and the momentum state as the iteration set it.
C14_LoopSurvives ==
  /\ \A n \in 0..(MaxTicks - 1) :
       (ticks = n) ~> (ticks = n + 1 \/ outcome = "interrupt")
  /\ [][(outcome = "error" /\ ticks' = ticks + 1)
          => (clock' >= clock + RETRY_SLEEP_SECONDS)]_vars
  /\ [][(outcome' = "error")
          => /\ rvState' = rvState
             /\ (last_trade_interval' # last_trade_interval)
                  => MomentumAccepted']_vars

\* the iteration that follows one that ended in the handler: the first
\* iteration bought on momentum and then raised, the second started after
\* the backoff sleep with the momentum state the first one left
C14_Witness ==
  /\ outcome = "ok"
  /\ ticks = 2
  /\ clock = StartTs + RETRY_SLEEP_SECONDS
  /\ MomentumOrders = <<>>
  /\ traded_bucket = IntervalOf(StartTs)
  /\ last_trade_interval = current_interval_of(StartTs)

\* -------------------------------------------------------------------- C17
\* C17: an iteration in the trigger window with one bid higher than the
\* other submits no momentum order only if a momentum order was already
\* accepted in the same 15-minute interval of the clock; an accepted order
\* of an earlier interval never suppresses it.
C17_SuppressionPerInterval ==
  [][(/\ outcome' \in {"ok", "error"}
      /\ InTriggerWindow(clock')
      /\ yes_bid' # no_bid'
      /\ MomentumOrders' = <<>>)
       => traded_bucket = IntervalOf(clock')]_vars

\* -------------------------------------------------------------------- C18
\* C18 as stated: an iteration submits at most two orders, momentum and RV
\* legs together.
C18_AtMostTwoOrders == Len(orders) <= 2

\* C18: an iteration submits at most three orders: at most one momentum
\* order, and either no RV order or exactly two.
C18_OrderBound ==
  /\ Len(orders) \in 0..3
  /\ Len(MomentumOrders) <= 1
  /\ Len(RVOrders) \in {0, 2}
  /\ Len(orders) = Len(MomentumOrders) + Len(RVOrders)

\* the momentum buy and both opening legs in one iteration
C18_Witness ==
  /\ Len(orders) = 3
  /\ Len(MomentumOrders) = 1
  /\ Len(OpenOrders) = 2

\* -------------------------------------------------------------------- C19
\* C19: with a clock that never goes back, isOpen changes only by an open
\* from Closed or a close from Open (so the successful transitions alternate
\* from the initial Closed), every change is at least the cooldown window
\* after the previous one, whose time lastActionTimestamp holds, and opening
\* orders are submitted only while Closed, closing orders only while Open.
C19_SpacingAndAlternation ==
  [][/\ clock' >= clock
     /\ (rv_open' # rv_open)
          => /\ clock' - rv_last_action_ts >= RV_COOLDOWN_SECONDS
             /\ rv_last_action_ts' = clock'
             /\ IF rv_open THEN Len(CloseOrders') = 2 /\ OpenOrders' = <<>>
                ELSE Len(OpenOrders') = 2 /\ CloseOrders' = <<>>
     /\ (rv_last_action_ts' # rv_last_action_ts) => (rv_open' # rv_open)
     /\ (OpenOrders' # <<>>) => ~rv_open
     /\ (CloseOrders' # <<>>) => rv_open]_vars

\* an open at the first iteration and the close exactly one cooldown window
\* later
C19_Witness ==
  /\ ~rv_open
  /\ Len(CloseOrders) = 2
  /\ rv_last_action_ts = clock
  /\ clock = StartTs + RV_COOLDOWN_SECONDS

\* -------------------------------------------------------------------- C20
\* every order of the latest iteration was accepted
AllAccepted == \A i \in 1..Len(orders) : orders[i].ok

\* the latest iteration was eligible to close: both markets resolved, the
\* cooldown over, the signal within the close threshold, every order accepted
GoodCloseTick ==
  /\ RVEvaluated
  /\ clock - rv_last_action_ts >= RV_COOLDOWN_SECONDS
  /\ Abs(signal) <= RV_CLOSE_THR
  /\ AllAccepted

\* the same for an open
GoodOpenTick ==
  /\ RVEvaluated
  /\ clock - rv_last_action_ts >= RV_COOLDOWN_SECONDS
  /\ Abs(signal) >= RV_OPEN_THR
  /\ AllAccepted

\* C20: an RV attempt with a rejected leg leaves isOpen and
\* lastActionTimestamp as they were, and every eligible iteration submits
\* the two orders of the transition again; so an Open position is followed by
\* an iteration that closes it unless that iteration is not eligible to
\* close (or the interrupt comes first), and a Closed one by an iteration
\* that opens it unless that iteration is not eligible to open.
C20_RetrySucceeds ==
  /\ [][(RVOrders' # <<>> /\ ~(RVOrders'[1].ok /\ RVOrders'[2].ok))
          => (rv_open' = rv_open /\ rv_last_action_ts' = rv_last_action_ts)]_vars
  /\ [][(CloseAttempted => Len(CloseOrders') = 2)
        /\ (OpenAttempted => Len(OpenOrders') = 2)]_vars
  /\ \A n \in 0..(MaxTicks - 1) :
       /\ (rv_open /\ ticks = n)
            ~> \/ ticks = n + 1 /\ (~rv_open \/ ~GoodCloseTick)
               \/ outcome = "interrupt"
       /\ (~rv_open /\ ticks = n)
            ~> \/ ticks = n + 1 /\ (rv_open \/ ~GoodOpenTick)
               \/ outcome = "interrupt"

\* a close whose second leg was rejected: the position is still Open, the
\* cooldown was not started, and a further iteration is to come
C20_Witness ==
  /\ ticks = 2
  /\ rv_open
  /\ Len(CloseOrders) = 2
  /\ CloseOrders[1].ok /\ ~CloseOrders[2].ok
  /\ rv_last_action_ts = StartTs
  /\ clock = StartTs + RV_COOLDOWN_SECONDS

====
